---------------------------- MODULE Spec2Model ----------------------------
(***************************************************************************)
(* Conway's Game of Life on Bevy (Tonguechaude/GOL.rs).                    *)
(*                                                                         *)
(* The ECS world is a sequence of entities (the handle is the index); each *)
(* entity carries a CellPosition, the Alive marker and whether it still    *)
(* exists.  DeadCellPool is a Vec of handles (push/pop at the end).        *)
(* Commands are deferred: a system queues them and the schedule applies    *)
(* them at its next sync point; resources (the pool, the configuration,    *)
(* the timer) are written at once.  The systems of Update run once per     *)
(* frame in an order the schedule does not fix.                            *)
(*                                                                         *)
(* Durations are counted in units of half a second.                        *)
(***************************************************************************)
EXTENDS Integers, Sequences, FiniteSets, TLC

VARIABLES
    ents,           \* the world: handle -> [pos, alive, live]
    pool,           \* DeadCellPool.entities
    config,         \* SimulationConfig / CellParams
    changed,        \* SimulationConfig.is_changed() as the listener will see it
    timer,          \* GenerationTimer / NewGenTimer
    last_painted,   \* LastPaintedPosition.position
    placement_mode, \* PlacementMode
    rle_loader,     \* RleLoader
    hist,           \* what the last system invocation did (history)
    gens,           \* generations computed since the start (history, saturating)
    seed,           \* the alive coordinates at the start (history)
    rle_call,       \* a call of parse_rle: its text, and what it returned
    frame           \* the frame under way: systems run, commands queued, inputs

vars == <<ents, pool, config, changed, timer, last_painted, placement_mode,
          rle_loader, hist, gens, seed, rle_call, frame>>

----------------------------------------------------------------------------
(* Bounds of the model *)

\* the interactive grid keeps its cells within -GridMax..GridMax on both axes
GridMax == 1
\* width of the region initial fixtures are drawn from
SeedW == 3
\* the generation counter saturates here
MaxGens == 3
\* largest frame time, in half seconds
MaxDelta == 2
\* largest configured period, in half seconds
MaxPeriod == 2
\* handles ever allocated
MaxEnts == 7
\* the same in the first application
LegacyEnts == 6
\* generations the start-up pattern is followed for
StartGens == 5
MaxRleLen == 3
\* frames of a session with the keyboard, of an editing session, of a session
\* with the pattern tools, of a session of the first application
MaxFrames == 2
EditFrames == 3
PatternFrames == 5
LegacyFrames == 2
\* alive cells of an initial fixture
MaxSeed == 4
\* generations a fixture is stepped through
FixtureGens == 2
\* width of the random square the fixtures are picked in
FixtureWidth == 5

\* SimulationConfig::default().period = 1 s, in half seconds
DefaultPeriod == 2

Universe == (-GridMax..GridMax) \X (-GridMax..GridMax)
None == <<"none">>
\* Option<String>::None
NoString == "none"

Min(a, b) == IF a < b THEN a ELSE b
Max(a, b) == IF a > b THEN a ELSE b

RECURSIVE SeqToSet(_)
SeqToSet(s) == IF s = <<>> THEN {} ELSE {Head(s)} \cup SeqToSet(Tail(s))

\* number of occurrences of x in the sequence s
RECURSIVE Occurrences(_, _)
Occurrences(s, x) ==
    IF s = <<>> THEN 0
    ELSE (IF Head(s) = x THEN 1 ELSE 0) + Occurrences(Tail(s), x)

\* row-major order on coordinates (y first, then x)
Before(p, q) == p[2] < q[2] \/ (p[2] = q[2] /\ p[1] < q[1])

\* the coordinates of a set in row-major order: the order in which a map or a
\* grid of coordinates is walked in the model
RECURSIVE RowMajor(_)
RowMajor(S) ==
    IF S = {} THEN <<>>
    ELSE LET m == CHOOSE p \in S : \A q \in S : q = p \/ Before(p, q)
         IN  <<m>> \o RowMajor(S \ {m})

----------------------------------------------------------------------------
(* The world and its queries *)

\* Query<(Entity, &CellPosition), With<Alive>>: the handles it yields
AliveQuery(w) == {e \in 1..Len(w) : w[e].live /\ w[e].alive}
\* Query<(Entity, &CellPosition), Without<Alive>>
DeadQuery(w) == {e \in 1..Len(w) : w[e].live /\ ~w[e].alive}

\* The orders in which an iteration may yield the members of S.  Neither the
\* queries of bevy nor the iteration of a hash map fix one.
RECURSIVE Orders(_)
Orders(S) ==
    IF S = {} THEN {<<>>}
    ELSE UNION {{<<x>> \o s : s \in Orders(S \ {x})} : x \in S}

\* the handles in the order of their allocation
RECURSIVE Ascending(_)
Ascending(S) ==
    IF S = {} THEN <<>>
    ELSE LET m == CHOOSE e \in S : \A f \in S : e <= f
         IN  <<m>> \o Ascending(S \ {m})

AlivePositionsOf(w) == {w[e].pos : e \in AliveQuery(w)}
AlivePositions == AlivePositionsOf(ents)
PoolSet == SeqToSet(pool)

\* One deferred command applied to the world.  A command for an entity that
\* no longer exists changes nothing.
ApplyCommand(w, cmd) ==
    CASE cmd.c = "spawn" ->
            Append(w, [pos |-> cmd.pos, alive |-> cmd.alive, live |-> TRUE])
      [] cmd.c = "remove_alive" ->
            IF w[cmd.e].live THEN [w EXCEPT ![cmd.e].alive = FALSE] ELSE w
      [] cmd.c = "insert_alive" ->
            IF w[cmd.e].live THEN [w EXCEPT ![cmd.e].alive = TRUE] ELSE w
      [] cmd.c = "insert_alive_at" ->
            IF w[cmd.e].live
            THEN [w EXCEPT ![cmd.e].alive = TRUE, ![cmd.e].pos = cmd.pos]
            ELSE w
      [] cmd.c = "despawn" ->
            IF w[cmd.e].live
            THEN [w EXCEPT ![cmd.e].live = FALSE, ![cmd.e].alive = FALSE]
            ELSE w
      [] cmd.c = "insert_sprite" -> w

RECURSIVE ApplyCommands(_, _)
ApplyCommands(w, cmds) ==
    IF cmds = <<>> THEN w
    ELSE ApplyCommands(ApplyCommand(w, Head(cmds)), Tail(cmds))

Cmd(c, e, pos, alive) == [c |-> c, e |-> e, pos |-> pos, alive |-> alive]
CmdSpawnAlive(pos) == Cmd("spawn", 0, pos, TRUE)
CmdSpawnBare(pos) == Cmd("spawn", 0, pos, FALSE)
CmdRemoveAlive(e) == Cmd("remove_alive", e, None, FALSE)
CmdInsertAlive(e) == Cmd("insert_alive", e, None, TRUE)
CmdInsertAliveAt(e, pos) == Cmd("insert_alive_at", e, pos, TRUE)
CmdDespawn(e) == Cmd("despawn", e, None, FALSE)
\* insert(Sprite) and insert(Transform): the cell and its position stay
CmdInsertSprite(e) == Cmd("insert_sprite", e, None, FALSE)

----------------------------------------------------------------------------
(* Rules *)

NEIGHBORS == << <<-1, -1>>, <<0, -1>>, <<1, -1>>, <<-1, 0>>,
                <<1, 0>>, <<-1, 1>>, <<0, 1>>, <<1, 1>> >>

IncrementMut(neighbors, p) ==
    IF p \in DOMAIN neighbors
    THEN [neighbors EXCEPT ![p] = @ + 1]
    ELSE neighbors @@ (p :> 2)

\* *neighbors.entry(neighbor_pos).or_insert(0) += 1
Increment(neighbors, p) ==
    IF p \in DOMAIN neighbors
    THEN [neighbors EXCEPT ![p] = @ + 1]
    ELSE neighbors @@ (p :> 0 + 1)

\* the inner loop: for &(dx, dy) in &NEIGHBORS
RECURSIVE CountCell(_, _, _)
CountCell(neighbors, cell, i) ==
    IF i > Len(NEIGHBORS) THEN neighbors
    ELSE LET neighbor_pos == <<cell[1] + NEIGHBORS[i][1], cell[2] + NEIGHBORS[i][2]>>
             counted == Increment(neighbors, neighbor_pos)
         IN  \* the test makes TLC evaluate the map before the next step
             IF neighbor_pos \in DOMAIN counted
             THEN CountCell(counted, cell, i + 1)
             ELSE counted

\* the outer loop: for cell in alive_cells (a sequence of positions)
RECURSIVE CountCells(_, _)
CountCells(neighbors, cells) ==
    IF cells = <<>> THEN neighbors
    ELSE CountCells(CountCell(neighbors, Head(cells), 1), Tail(cells))

EmptyMap == <<>>

\* calculate_neighbor_counts over the set of alive positions
calculate_neighbor_counts(alive_cells) ==
    CountCells(EmptyMap, RowMajor(alive_cells))

should_cell_surviveMut(neighbor_count) == neighbor_count = 2

should_cell_survive(neighbor_count) == neighbor_count \in {2, 3}

should_cell_be_bornMut(neighbor_count) == neighbor_count >= 2

should_cell_be_born(neighbor_count) == neighbor_count = 3


----------------------------------------------------------------------------
(* bevy Timer, TimerMode::Repeating, as the schedulers use it *)

\* Timer::new(period, TimerMode::Repeating)
TimerNew(period) == [duration |-> period, elapsed |-> 0, finished |-> FALSE]

TimerTickMut(t, delta) ==
    LET e == t.elapsed + delta
    IN  IF e > t.duration
        THEN [t EXCEPT !.elapsed = e % t.duration, !.finished = TRUE]
        ELSE [t EXCEPT !.elapsed = e, !.finished = FALSE]

TimerTickNever(t, delta) == [t EXCEPT !.finished = FALSE]

\* timer.0.tick(time.delta()): a repeating timer that reaches its duration is
\* finished for this tick only and keeps the remainder of the elapsed time
TimerTick(t, delta) ==
    LET e == t.elapsed + delta
    IN  IF e >= t.duration
        THEN [t EXCEPT !.elapsed = e % t.duration, !.finished = TRUE]
        ELSE [t EXCEPT !.elapsed = e, !.finished = FALSE]

TimerSetAndResetMut(t, period) == [t EXCEPT !.duration = period]

\* timer.0.set_duration(period); timer.0.reset()
TimerSetAndReset(t, period) ==
    [duration |-> period, elapsed |-> 0, finished |-> FALSE]

----------------------------------------------------------------------------
(* Frames.  Update runs each of its systems once per frame.  A system that  *)
(* issues Commands only queues them; the queues are applied at the sync     *)
(* points of the schedule and when every system has run.                    *)

\* the systems of Update that hold a queue of commands
NoQueue ==
    [draw |-> <<>>, generation |-> <<>>, keyboard |-> <<>>, mouse |-> <<>>]
MouseUp == [button |-> "up", cell |-> <<0, 0>>]

\* no application is running
NoFrame ==
    [phase |-> "none", app |-> {}, ran |-> {}, queued |-> NoQueue,
     mouse |-> MouseUp, key_r |-> FALSE, n |-> 0, drawn |-> 0]

\* Update of the application: SimulationPlugin, InputPlugin, and the sync point
\* the schedule inserts between draw_new_cells_system and CellSet.  The queue
\* of that draw_new_cells_system (rendering/sprites.rs) holds insert(Sprite) and
\* insert(Transform) for alive entities; this application despawns no entity,
\* so the queue changes neither a cell nor the pool, and is left out.
Systems ==
    {"listener", "keyboard", "mouse", "reset_paint", "sync", "generation"}
\* Update of SimulationPlugin (and of CellSystem) on its own
SimulationSystems == {"listener", "generation"}

\* the application stops at a panic
NotPanicked == hist.op # "panic"

\* The system has not run in this frame.  calculate_next_generation is in
\* CellSet, which draw_new_cells_system and its sync point come before; no
\* other order is declared.
Runs(system) ==
    /\ NotPanicked
    /\ frame.phase = "update"
    /\ system \in frame.app \ frame.ran
    /\ (system = "generation" /\ "sync" \in frame.app) => "sync" \in frame.ran
    /\ (system = "sync" /\ "draw" \in frame.app) => "draw" \in frame.ran

Ran(system) == [frame EXCEPT !.ran = @ \cup {system}]

\* the system has run and its commands wait in its queue
Queue(system, cmds) == [Ran(system) EXCEPT !.queued[system] = cmds]

\* what the last invocation did: the system, whether it computed a generation,
\* its kill-list (handles) and spawn-list (coordinates), the pool as it was
\* between the kill loop and the spawn loop, the frame time it was given, and
\* the coordinate under the cursor when it placed a pattern
Hist(op, computed, kill, spawn, poolMid) ==
    [op |-> op, computed |-> computed, kill |-> kill, spawn |-> spawn,
     poolMid |-> poolMid, delta |-> 0, anchor |-> None]
HistOf(op) == Hist(op, FALSE, <<>>, <<>>, <<>>)

----------------------------------------------------------------------------
(* One generation: calculate_next_generation after its gate *)

CountAt(neighbor_counts, p) ==
    IF p \in DOMAIN neighbor_counts THEN neighbor_counts[p] ELSE 0

\* "Determine which cells should die": the kill-lists the scan may build, one
\* for each order in which the query may yield the handles
cells_to_kill(w, neighbor_counts) ==
    Orders({entity \in AliveQuery(w) :
               ~should_cell_survive(CountAt(neighbor_counts, w[entity].pos))})

cells_to_spawnMut(neighbor_counts, alive_positions) ==
    {RowMajor({pos \in DOMAIN neighbor_counts : neighbor_counts[pos] >= 4})}

\* "Determine which cells should be born": the spawn-lists the scan may build,
\* one for each order in which the map may yield its keys
cells_to_spawn(neighbor_counts, alive_positions) ==
    Orders({pos \in DOMAIN neighbor_counts :
               /\ should_cell_be_born(neighbor_counts[pos])
               /\ pos \notin alive_positions})

\* "Kill cells": remove Alive (deferred) and push the handle on the pool
RECURSIVE KillLoop(_, _)
KillLoop(acc, kill) ==
    IF kill = <<>> THEN acc
    ELSE KillLoop([pool |-> Append(acc.pool, Head(kill)),
                   cmds |-> Append(acc.cmds, CmdRemoveAlive(Head(kill)))],
                  Tail(kill))

\* "Spawn new cells": reuse the handle on top of the pool, else spawn
RECURSIVE SpawnLoop(_, _)
SpawnLoop(acc, spawn) ==
    IF spawn = <<>> THEN acc
    ELSE LET new_pos == Head(spawn)
             n == Len(acc.pool)
         IN  IF n > 0
             THEN SpawnLoop(
                    [pool |-> SubSeq(acc.pool, 1, n - 1),
                     cmds |-> Append(acc.cmds,
                                     CmdInsertAliveAt(acc.pool[n], new_pos))],
                    Tail(spawn))
             ELSE SpawnLoop(
                    [pool |-> acc.pool,
                     cmds |-> Append(acc.cmds, CmdSpawnAlive(new_pos))],
                    Tail(spawn))

\* the two loops on the lists of a tick
KillAndSpawn(p, kill, spawn) ==
    LET killed == KillLoop([pool |-> p, cmds |-> <<>>], kill)
        spawned == SpawnLoop(killed, spawn)
    IN  [pool |-> spawned.pool, cmds |-> spawned.cmds,
         kill |-> kill, spawn |-> spawn, poolMid |-> killed.pool]

\* the body of calculate_next_generation below its gate, on world w and pool
\* p: the outcomes it may have
next_generation(w, p) ==
    LET alive_positions == AlivePositionsOf(w)
        neighbor_counts == calculate_neighbor_counts(alive_positions)
    IN  {KillAndSpawn(p, kill, spawn) :
            kill \in cells_to_kill(w, neighbor_counts),
            spawn \in cells_to_spawn(neighbor_counts, alive_positions)}

take_step_requestMut(cfg) == cfg

\* simulation_config.calculate_next_gen = false
take_step_request(cfg) == [cfg EXCEPT !.calculate_next_gen = FALSE]

calculate_next_generationMut(delta) ==
    LET ticked == TimerTick(timer, delta)
        fires == IF config.running THEN ticked.finished
                 ELSE config.calculate_next_gen
    IN  /\ timer' = ticked
        /\ config' = IF ~config.running /\ config.calculate_next_gen
                     THEN take_step_request(config)
                     ELSE config
        /\ changed' = (changed \/ (~config.running /\ config.calculate_next_gen))
        /\ IF fires
           THEN \E g \in next_generation(ents, pool) :
                    /\ pool' = g.pool
                    /\ frame' = Queue("generation", g.cmds)
                    /\ hist' = [Hist("generation", TRUE, g.kill, g.spawn, g.poolMid)
                                   EXCEPT !.delta = delta]
           ELSE /\ UNCHANGED pool
                /\ frame' = Ran("generation")
                /\ hist' = [HistOf("generation") EXCEPT !.delta = delta]
        /\ UNCHANGED <<ents, last_painted, placement_mode, rle_loader>>

\* calculate_next_generation, one invocation with frame time delta: the pool,
\* the timer and the configuration are written at once, the commands queued
calculate_next_generation(delta) ==
    LET ticked == TimerTick(timer, delta)
        fires == IF config.running THEN ticked.finished
                 ELSE config.calculate_next_gen
    IN  /\ timer' = IF config.running THEN ticked ELSE timer
        /\ config' = IF ~config.running /\ config.calculate_next_gen
                     THEN take_step_request(config)
                     ELSE config
        /\ changed' = (changed \/ (~config.running /\ config.calculate_next_gen))
        /\ IF fires
           THEN \E g \in next_generation(ents, pool) :
                    /\ pool' = g.pool
                    /\ frame' = Queue("generation", g.cmds)
                    /\ hist' = [Hist("generation", TRUE, g.kill, g.spawn, g.poolMid)
                                   EXCEPT !.delta = delta]
           ELSE /\ UNCHANGED pool
                /\ frame' = Ran("generation")
                /\ hist' = [HistOf("generation") EXCEPT !.delta = delta]
        /\ UNCHANGED <<ents, last_painted, placement_mode, rle_loader>>

----------------------------------------------------------------------------
(* Start-up *)

\* commands.spawn((CellPosition { x, y }, Alive)) for each listed cell
RECURSIVE SpawnAll(_)
SpawnAll(cells) ==
    IF cells = <<>> THEN <<>>
    ELSE <<CmdSpawnAlive(Head(cells))>> \o SpawnAll(Tail(cells))

InitialPattern == << <<0, 0>>, <<-1, 0>>, <<0, -1>>, <<0, 1>>, <<1, 1>> >>

setup_initial_pattern == ApplyCommands(<<>>, SpawnAll(InitialPattern))

\* SimulationConfig::default()
DefaultConfig ==
    [running |-> TRUE, period |-> DefaultPeriod, calculate_next_gen |-> FALSE]

\* PlacementMode::default(), RleLoader::default()
DefaultPlacement == [active |-> FALSE, pattern_name |-> NoString]
DefaultLoader ==
    [rle_content |-> <<>>, show_input |-> FALSE, error_message |-> NoString]

----------------------------------------------------------------------------
(* RLE patterns *)

Digits == {"0", "1", "2", "3", "4", "5", "6", "7", "8", "9"}
DigitValue(byte) ==
    CASE byte = "0" -> 0 [] byte = "1" -> 1 [] byte = "2" -> 2
      [] byte = "3" -> 3 [] byte = "4" -> 4 [] byte = "5" -> 5
      [] byte = "6" -> 6 [] byte = "7" -> 7 [] byte = "8" -> 8
      [] byte = "9" -> 9

\* i32: the type of x, y and num (a coordinate list of (i32, i32))
Int32Max == 2147483647
Int32Min == (-Int32Max) - 1
Signed16(h) == ((h + 32768) % 65536) - 32768

\* a + b and a * 10 on i32 without overflow checks (two's complement), computed
\* on 16-bit halves
wrapping_add(a, b) ==
    LET lo == (a % 65536) + (b % 65536)
        hi == (a \div 65536) + (b \div 65536) + (lo \div 65536)
    IN  Signed16(hi) * 65536 + (lo % 65536)
wrapping_mul10(a) ==
    LET lo == (a % 65536) * 10
        hi == (a \div 65536) * 10 + (lo \div 65536)
    IN  Signed16(hi) * 65536 + (lo % 65536)

\* "attempt to add with overflow" / "attempt to multiply with overflow"
add_overflows(a, b) == IF b >= 0 THEN a > Int32Max - b ELSE a < Int32Min - b
mul10_overflows(a) == a > Int32Max \div 10 \/ a < -(Int32Max \div 10)

\* for i in 0..count { cells.push((x + i, y)) }
Run(x, y, count) == [i \in 1..count |-> <<wrapping_add(x, i - 1), y>>]

\* b'!' => break, and the end of the bytes
AtEndMut(rle) == rle = <<>>
AtEnd(rle) == rle = <<>> \/ Head(rle) = "!"

\* one byte of the loop of parse_rle; st = [cells, x, y, num, panicked].
\* overflow_checks is the build: with it an overflowing operation panics,
\* without it the operation wraps.
ParseByte(st, byte, overflow_checks) ==
    LET count == Max(st.num, 1)
        panic == [st EXCEPT !.cells = <<>>, !.panicked = TRUE]
    IN  CASE byte \in Digits ->
               IF overflow_checks
                  /\ (\/ mul10_overflows(st.num)
                      \/ add_overflows(wrapping_mul10(st.num), DigitValue(byte)))
               THEN panic
               ELSE [st EXCEPT !.num = wrapping_add(wrapping_mul10(st.num),
                                                    DigitValue(byte))]
          [] byte \in {"b", "."} ->
               IF overflow_checks /\ add_overflows(st.x, count)
               THEN panic
               ELSE [st EXCEPT !.x = wrapping_add(st.x, count), !.num = 0]
          [] byte = "o" ->
               IF overflow_checks /\ add_overflows(st.x, count)
               THEN panic
               ELSE [st EXCEPT !.cells = st.cells \o Run(st.x, st.y, count),
                               !.x = wrapping_add(st.x, count), !.num = 0]
          [] byte = "$" ->
               IF overflow_checks /\ add_overflows(st.y, count)
               THEN panic
               ELSE [st EXCEPT !.y = wrapping_add(st.y, count), !.x = 0, !.num = 0]
          [] OTHER -> st

\* the byte loop of parse_rle
RECURSIVE ParseBytes(_, _, _)
ParseBytes(st, rle, overflow_checks) ==
    IF AtEnd(rle) \/ st.panicked THEN st
    ELSE ParseBytes(ParseByte(st, Head(rle), overflow_checks), Tail(rle),
                    overflow_checks)

\* parse_rle in a build with or without overflow checks (the sources fix no
\* profile): the list it returns, or that it panicked
parse_rle(rle, overflow_checks) ==
    LET st == ParseBytes([cells |-> <<>>, x |-> 0, y |-> 0, num |-> 0,
                          panicked |-> FALSE], rle, overflow_checks)
    IN  [cells |-> st.cells, panicked |-> st.panicked]

\* no call of parse_rle is being looked at
NoCall ==
    [header |-> <<>>, body |-> <<>>, done |-> FALSE, overflow_checks |-> FALSE,
     cells |-> <<>>, panicked |-> FALSE]

\* a digit run beyond i32: "4294967298o!"
WideRow == <<"4", "2", "9", "4", "9", "6", "7", "2", "9", "8", "o", "!">>

\* texts the user may paste into the loader (sequences of characters)
RleTexts ==
    { <<>>, <<" ", "\n">>, <<"\f">>, <<"2", "o">>, <<"2", "o", "!">>, WideRow }

\* The bundled patterns are asset files decoded by parse_rle at their first
\* use; the files are not part of the sources, so each name stands for a small
\* text, which every build decodes to the same list.
BundledNames == {"pulsar", "pufferfish", "traffic-jam"}
BundledCells(name) ==
    CASE name = "pulsar" -> parse_rle(<<"o", "$", "o", "!">>, TRUE).cells
      [] name = "pufferfish" ->
               parse_rle(<<"b", "o", "$", "2", "o", "!">>, TRUE).cells
      [] name = "traffic-jam" -> parse_rle(<<"o", "!">>, TRUE).cells

----------------------------------------------------------------------------
(* Input systems of the user interface *)

\* clear_cells: every alive handle loses Alive (deferred) and is pushed, in
\* the order in which the query yields the handles: the outcomes it may have
clear_cells(w, p) ==
    {KillLoop([pool |-> p, cmds |-> <<>>], query) : query \in Orders(AliveQuery(w))}

\* place_pattern / place_pattern_from_vec at the anchor position
RECURSIVE PlaceLoop(_, _, _)
PlaceLoop(acc, position, cells) ==
    IF cells = <<>> THEN acc
    ELSE LET pos == <<position[1] + Head(cells)[1], position[2] + Head(cells)[2]>>
             n == Len(acc.pool)
         IN  IF n > 0
             THEN PlaceLoop(
                    [pool |-> SubSeq(acc.pool, 1, n - 1),
                     cmds |-> Append(acc.cmds, CmdInsertAliveAt(acc.pool[n], pos))],
                    position, Tail(cells))
             ELSE PlaceLoop(
                    [pool |-> acc.pool,
                     cmds |-> Append(acc.cmds, CmdSpawnAlive(pos))],
                    position, Tail(cells))

place_pattern(p, position, cells) ==
    PlaceLoop([pool |-> p, cmds |-> <<>>], position, cells)

\* dead_pool.entities.swap_remove(index) at the first index holding entity
SwapRemove(p, entity) ==
    IF \E i \in 1..Len(p) : p[i] = entity
    THEN LET index == CHOOSE i \in 1..Len(p) :
                          p[i] = entity /\ \A j \in 1..(i - 1) : p[j] # entity
             n == Len(p)
         IN  IF index = n THEN SubSeq(p, 1, n - 1)
             ELSE SubSeq([p EXCEPT ![index] = p[n]], 1, n - 1)
    ELSE p

\* the handles a query may yield first at the position: any of those it
\* yields there
FirstAt(w, query, pos) == {e \in query : w[e].pos = pos}

\* the hand-paint part of mouse_click_system (below the drag check): the
\* outcomes it may have
paint_cell(w, p, new_cell) ==
    LET living == FirstAt(w, AliveQuery(w), new_cell)
        dead == FirstAt(w, DeadQuery(w), new_cell)
        n == Len(p)
    IN  IF living # {}
        THEN {[pool |-> Append(p, entity), cmds |-> <<CmdRemoveAlive(entity)>>] :
                 entity \in living}
        ELSE IF dead # {}
        THEN {[pool |-> SwapRemove(p, entity), cmds |-> <<CmdInsertAlive(entity)>>] :
                 entity \in dead}
        ELSE IF n > 0
        THEN {[pool |-> SubSeq(p, 1, n - 1),
               cmds |-> <<CmdInsertAliveAt(p[n], new_cell)>>]}
        ELSE {[pool |-> p, cmds |-> <<CmdSpawnAlive(new_cell)>>]}

\* coordinates the cursor may point at
CursorCells == { <<0, 0>>, <<1, 0>> }

\* mouse_click_system with the cursor on new_cell
mouse_click_system(new_cell, pressed, just_released, over_ui) ==
    /\ UNCHANGED <<ents, config, changed, timer, rle_loader>>
    /\ IF config.running \/ over_ui
       THEN /\ UNCHANGED <<pool, last_painted, placement_mode>>
            /\ frame' = Ran("mouse")
            /\ hist' = HistOf("mouse")
       ELSE IF placement_mode.active
       THEN IF placement_mode.pattern_name # NoString /\ just_released
            THEN \E overflow_checks \in BOOLEAN :
                   LET name == placement_mode.pattern_name
                       parsed == IF name = "custom_rle"
                                 THEN parse_rle(rle_loader.rle_content,
                                                overflow_checks)
                                 ELSE [cells |-> BundledCells(name),
                                       panicked |-> FALSE]
                       r == place_pattern(pool, new_cell, parsed.cells)
                   IN  IF parsed.panicked
                       THEN /\ UNCHANGED <<pool, last_painted, placement_mode>>
                            /\ frame' = Ran("mouse")
                            /\ hist' = HistOf("panic")
                       ELSE /\ pool' = r.pool
                            /\ frame' = Queue("mouse", r.cmds)
                            /\ placement_mode' = [active |-> FALSE,
                                                  pattern_name |-> NoString]
                            /\ hist' = [Hist("place", FALSE, <<>>, parsed.cells, <<>>)
                                           EXCEPT !.anchor = new_cell]
                            /\ UNCHANGED last_painted
            ELSE /\ UNCHANGED <<pool, last_painted, placement_mode>>
                 /\ frame' = Ran("mouse")
                 /\ hist' = HistOf("mouse")
       ELSE IF ~pressed \/ last_painted = new_cell
       THEN /\ UNCHANGED <<pool, last_painted, placement_mode>>
            /\ frame' = Ran("mouse")
            /\ hist' = HistOf("mouse")
       ELSE \E r \in paint_cell(ents, pool, new_cell) :
                /\ last_painted' = new_cell
                /\ pool' = r.pool
                /\ frame' = Queue("mouse", r.cmds)
                /\ hist' = Hist("paint", FALSE, <<>>, <<new_cell>>, <<>>)
                /\ UNCHANGED placement_mode

\* reset_paint_position
reset_paint_position(just_released) ==
    /\ last_painted' = IF just_released THEN None ELSE last_painted
    /\ frame' = Ran("reset_paint")
    /\ hist' = HistOf("reset_paint")
    /\ UNCHANGED <<ents, pool, config, changed, timer, placement_mode,
                   rle_loader>>

\* keyboard_input_system: the simulation controls (Space, R, N)
keyboard_input_system(space, key_r, key_n) ==
    LET running1 == IF space THEN ~config.running ELSE config.running
        running2 == IF key_r THEN FALSE ELSE running1
        step == key_n /\ ~running2
    IN  /\ config' = [config EXCEPT
                        !.running = running2,
                        !.calculate_next_gen = IF step THEN TRUE ELSE @]
        /\ changed' = (changed \/ space \/ key_r \/ step)
        /\ IF key_r
           THEN \E cleared \in clear_cells(ents, pool) :
                    /\ pool' = cleared.pool
                    /\ frame' = [Queue("keyboard", cleared.cmds)
                                    EXCEPT !.key_r = TRUE]
           ELSE /\ UNCHANGED pool
                /\ frame' = Ran("keyboard")
        /\ hist' = HistOf(IF key_r THEN "clear" ELSE "keyboard")
        /\ UNCHANGED <<ents, timer, last_painted, placement_mode, rle_loader>>

\* commands.entity(entity).insert(..) panics when it is applied to an entity
\* that was despawned
RECURSIVE Panics(_, _)
Panics(w, cmds) ==
    IF cmds = <<>> THEN FALSE
    ELSE \/ /\ Head(cmds).c \in {"remove_alive", "insert_alive", "insert_alive_at",
                                 "insert_sprite"}
            /\ ~w[Head(cmds).e].live
         \/ Panics(ApplyCommand(w, Head(cmds)), Tail(cmds))

\* the queues of the systems that have run, one system after the other
RECURSIVE Queued(_)
Queued(order) ==
    IF order = <<>> THEN <<>>
    ELSE frame.queued[Head(order)] \o Queued(Tail(order))

\* orders in which the queues of the systems may be applied
QueueOrders == Orders({"generation", "keyboard", "mouse"})

\* A sync point of Update (before CellSet, and when every system has run): the
\* queues of the systems that have run are applied, one after the other.
apply_deferred(order) ==
    /\ IF Panics(ents, Queued(order))
       THEN /\ UNCHANGED ents
            /\ hist' = HistOf("panic")
       ELSE /\ ents' = ApplyCommands(ents, Queued(order))
            /\ hist' = HistOf(IF frame.ran = frame.app THEN "apply" ELSE "sync")
    /\ frame' = IF frame.ran = frame.app
                THEN [frame EXCEPT !.phase = "egui", !.queued = NoQueue]
                ELSE [Ran("sync") EXCEPT !.queued = NoQueue]
    /\ UNCHANGED <<pool, config, changed, timer, last_painted, placement_mode,
                   rle_loader>>

----------------------------------------------------------------------------
(* control_panel_system: one widget acts per invocation *)

\* the panel runs in its own schedule, when Update is over and its queues are
\* applied; its own commands are applied at the end of that schedule
PanelIdle == UNCHANGED <<timer, last_painted>>

\* "Clear Grid"
ClearGridButton ==
    \E cleared \in clear_cells(ents, pool) :
        /\ config' = [config EXCEPT !.running = FALSE]
        /\ changed' = TRUE
        /\ ents' = ApplyCommands(ents, cleared.cmds)
        /\ pool' = cleared.pool
        /\ hist' = HistOf("clear")
        /\ UNCHANGED <<placement_mode, rle_loader>>
        /\ PanelIdle

\* widths of the random square the user may set, and the cells the generator
\* may pick
RandomWidths == {1, 2}
RandomPicks == SUBSET { <<-1, -1>>, <<0, 0>> }

\* generate_random_cells: the cells the generator picks, x outer, y inner
RECURSIVE ColumnMajor(_)
ColumnMajor(S) ==
    IF S = {} THEN <<>>
    ELSE LET m == CHOOSE p \in S : \A q \in S : q = p \/ Before(<<p[2], p[1]>>, <<q[2], q[1]>>)
         IN  <<m>> \o ColumnMajor(S \ {m})

generate_random_cells(x, y, width, height, picked) ==
    SpawnAll(ColumnMajor(picked \cap ((x..(x + width - 1)) \X (y..(y + height - 1)))))

\* "Random Cells": clear_cells, then generate_random_cells
RandomCellsButton(width, picked) ==
    LET offset == -(width \div 2)
    IN  \E cleared \in clear_cells(ents, pool) :
            /\ picked \subseteq (offset..(offset + width - 1))
                                   \X (offset..(offset + width - 1))
            /\ ents' = ApplyCommands(
                          ents, cleared.cmds \o generate_random_cells(
                                                    offset, offset, width, width, picked))
            /\ pool' = cleared.pool
            /\ hist' = Hist("random", FALSE, <<>>, ColumnMajor(picked), <<>>)
            /\ UNCHANGED <<config, changed, placement_mode, rle_loader>>
            /\ PanelIdle

\* the speed slider moved: simulation_config.period = slider_to_period(..)
SpeedSlider(period) ==
    /\ period # config.period
    /\ config' = [config EXCEPT !.period = period]
    /\ changed' = TRUE
    /\ hist' = HistOf("speed")
    /\ UNCHANGED <<ents, pool, placement_mode, rle_loader>>
    /\ PanelIdle

\* "Pause" / "Start"
PlayPauseButton ==
    /\ config' = [config EXCEPT !.running = ~config.running]
    /\ changed' = TRUE
    /\ hist' = HistOf("play_pause")
    /\ UNCHANGED <<ents, pool, placement_mode, rle_loader>>
    /\ PanelIdle

\* "Next Generation", enabled while paused
NextGenerationButton ==
    /\ ~config.running
    /\ config' = [config EXCEPT !.calculate_next_gen = TRUE]
    /\ changed' = TRUE
    /\ hist' = HistOf("request")
    /\ UNCHANGED <<ents, pool, placement_mode, rle_loader>>
    /\ PanelIdle

\* pattern_system: one of the pattern buttons
PatternButton(name) ==
    /\ placement_mode' = [active |-> TRUE, pattern_name |-> name]
    /\ config' = [config EXCEPT !.running = FALSE]
    /\ changed' = TRUE
    /\ hist' = HistOf("pattern")
    /\ UNCHANGED <<ents, pool, rle_loader>>
    /\ PanelIdle

\* pattern_system: "Load RLE"
LoadRleButton ==
    /\ rle_loader' = [rle_content |-> <<>>, show_input |-> TRUE,
                      error_message |-> NoString]
    /\ hist' = HistOf("load_rle")
    /\ UNCHANGED <<ents, pool, config, changed, placement_mode>>
    /\ PanelIdle

\* pattern_system: "Cancel" while placing
CancelPlacementButton ==
    /\ placement_mode.active
    /\ placement_mode' = [placement_mode EXCEPT !.active = FALSE]
    /\ hist' = HistOf("cancel_placement")
    /\ UNCHANGED <<ents, pool, config, changed, rle_loader>>
    /\ PanelIdle

\* rle_loader_modal: the text field edited
RleTextEdit(text) ==
    /\ rle_loader.show_input
    /\ rle_loader' = [rle_loader EXCEPT !.rle_content = text]
    /\ hist' = HistOf("rle_edit")
    /\ UNCHANGED <<ents, pool, config, changed, placement_mode>>
    /\ PanelIdle

\* rle_loader_modal: "Cancel"
RleCancelButton ==
    /\ rle_loader.show_input
    /\ rle_loader' = [rle_content |-> <<>>, show_input |-> FALSE,
                      error_message |-> NoString]
    /\ hist' = HistOf("rle_cancel")
    /\ UNCHANGED <<ents, pool, config, changed, placement_mode>>
    /\ PanelIdle

\* The characters of the Unicode property White_Space, which str::trim
\* strips; those a string of the model cannot hold go by their code point.
Whitespace ==
    {"\t", "\n", "U+000B", "\f", "\r", " ", "U+0085", "U+00A0", "U+1680",
     "U+2000", "U+2001", "U+2002", "U+2003", "U+2004", "U+2005", "U+2006",
     "U+2007", "U+2008", "U+2009", "U+200A", "U+2028", "U+2029", "U+202F",
     "U+205F", "U+3000"}

\* rle_content.trim().is_empty()
IsBlank(text) == \A i \in 1..Len(text) : text[i] \in Whitespace

contains_bangMut(text) == TRUE

\* rle_content.contains('!')
contains_bang(text) == \E i \in 1..Len(text) : text[i] = "!"

\* rle_loader_modal: "Load Pattern"
RleLoadButton ==
    /\ rle_loader.show_input
    /\ hist' = HistOf("rle_load")
    /\ IF IsBlank(rle_loader.rle_content)
       THEN /\ rle_loader' = [rle_loader EXCEPT !.error_message = "empty"]
            /\ UNCHANGED <<config, changed, placement_mode>>
       ELSE IF contains_bang(rle_loader.rle_content)
       THEN /\ rle_loader' = [rle_loader EXCEPT !.show_input = FALSE,
                                                !.error_message = NoString]
            /\ placement_mode' = [active |-> TRUE, pattern_name |-> "custom_rle"]
            /\ config' = [config EXCEPT !.running = FALSE]
            /\ changed' = TRUE
       ELSE /\ rle_loader' = [rle_loader EXCEPT !.error_message = "invalid"]
            /\ UNCHANGED <<config, changed, placement_mode>>
    /\ UNCHANGED <<ents, pool>>
    /\ PanelIdle

----------------------------------------------------------------------------
(* simulation_config_listener *)

simulation_config_listener ==
    /\ timer' = IF changed /\ config.period # timer.duration
                THEN TimerSetAndReset(timer, config.period)
                ELSE timer
    /\ changed' = FALSE
    /\ frame' = Ran("listener")
    /\ hist' = HistOf("listener")
    /\ UNCHANGED <<ents, pool, config, last_painted, placement_mode,
                   rle_loader>>


----------------------------------------------------------------------------
(* The application frame by frame *)

\* the state of the left button and the cursor during a frame
MouseInputs ==
    {MouseUp} \cup [button : {"pressed", "released"}, cell : CursorCells]
\* the same while the user places patterns
PatternMouse == {MouseUp} \cup [button : {"released"}, cell : CursorCells]

\* the first frame of an application whose Update holds the systems of app
FirstFrame(app, mouse) ==
    [phase |-> "update", app |-> app, ran |-> {}, queued |-> NoQueue,
     mouse |-> mouse, key_r |-> FALSE, n |-> 1, drawn |-> 0]

\* the next frame, counted as n, begins with the mouse as the user holds it
NextFrame(mouse, n) ==
    /\ NotPanicked
    /\ frame.phase = "egui"
    /\ frame' = [frame EXCEPT !.phase = "update", !.ran = {}, !.mouse = mouse,
                              !.key_r = FALSE, !.n = n]

\* control_panel_system with no widget used
PanelUnused ==
    /\ hist' = HistOf("panel")
    /\ UNCHANGED <<ents, pool, config, changed, placement_mode, rle_loader>>
    /\ PanelIdle

\* the state when the Startup schedule has run
StartUp ==
    /\ ents = setup_initial_pattern
    /\ pool = <<>>
    /\ config = DefaultConfig
    /\ changed = TRUE
    /\ timer = TimerNew(DefaultPeriod)
    /\ last_painted = None
    /\ placement_mode = DefaultPlacement
    /\ rle_loader = DefaultLoader
    /\ hist = HistOf("init")
    /\ gens = 0
    /\ seed = AlivePositionsOf(setup_initial_pattern)
    /\ rle_call = NoCall

\* the handles the model lets the world allocate, and where it lets them be
InGrid(w, grid) == \A e \in 1..Len(w) : w[e].live => w[e].pos \in grid
Bounded == Len(ents') <= MaxEnts /\ InGrid(ents', Universe)

\* the generations computed so far
Counted == gens' = IF hist'.computed THEN Min(gens + 1, MaxGens) ELSE gens

Idle == UNCHANGED <<gens, seed, rle_call>>

FrameListener == Runs("listener") /\ simulation_config_listener /\ Idle

FrameGeneration ==
    \E delta \in 1..MaxDelta :
        /\ Runs("generation")
        /\ calculate_next_generation(delta)
        /\ Counted
        /\ UNCHANGED <<seed, rle_call>>

FrameKeyboard ==
    \E space, key_r, key_n \in BOOLEAN :
        /\ Runs("keyboard")
        /\ keyboard_input_system(space, key_r, key_n)
        /\ Idle

FrameMouse ==
    /\ Runs("mouse")
    /\ mouse_click_system(frame.mouse.cell, frame.mouse.button = "pressed",
                          frame.mouse.button = "released", FALSE)
    /\ Idle

FrameResetPaint ==
    /\ Runs("reset_paint")
    /\ reset_paint_position(frame.mouse.button = "released")
    /\ Idle

\* the sync point before CellSet
FrameSync ==
    \E order \in QueueOrders :
        /\ Runs("sync")
        /\ apply_deferred(order)
        /\ Bounded
        /\ Idle

\* every system of Update has run
Over == NotPanicked /\ frame.phase = "update" /\ frame.ran = frame.app

\* the end of Update
FrameApply ==
    \E order \in QueueOrders :
        /\ Over
        /\ apply_deferred(order)
        /\ Bounded
        /\ Idle

----------------------------------------------------------------------------
(* The application from start-up, the mouse left alone: mouse_click_system *)
(* and reset_paint_position return at once and are left out                 *)

ControlSystems == Systems \ {"mouse", "reset_paint"}

Init == StartUp /\ frame = FirstFrame(ControlSystems, MouseUp)

\* from one frame to the next, which is not counted
Turn == NextFrame(MouseUp, frame.n) /\ Idle

Scheduler ==
    \E delta \in 0..MaxDelta :
        /\ Runs("generation")
        /\ calculate_next_generation(delta)
        /\ Counted
        /\ UNCHANGED <<seed, rle_call>>

\* the R key is left alone
Keyboard ==
    \E space, key_n \in BOOLEAN :
        /\ Runs("keyboard")
        /\ keyboard_input_system(space, FALSE, key_n)
        /\ Idle

PanelRest == PanelUnused /\ Turn

Speed == \E period \in 1..MaxPeriod : SpeedSlider(period) /\ Turn

PlayPause == PlayPauseButton /\ Turn

StepButton == NextGenerationButton /\ Turn

Next ==
    \/ FrameListener
    \/ Scheduler
    \/ Keyboard
    \/ FrameSync
    \/ FrameApply
    \/ PanelRest
    \/ Speed
    \/ PlayPause
    \/ StepButton

Spec == Init /\ [][Next]_vars

----------------------------------------------------------------------------
(* The start-up pattern left to evolve, running or stepped; the keyboard and *)
(* the mouse are left alone                                                  *)

StartSystems == Systems \ {"keyboard", "mouse", "reset_paint"}

InitStart == StartUp /\ frame = FirstFrame(StartSystems, MouseUp)

StartGeneration ==
    \E delta \in 0..MaxDelta :
        /\ gens < StartGens
        /\ Runs("generation")
        /\ calculate_next_generation(delta)
        /\ gens' = IF hist'.computed THEN gens + 1 ELSE gens
        /\ UNCHANGED <<seed, rle_call>>

StartSync ==
    \E order \in QueueOrders :
        /\ Runs("sync")
        /\ apply_deferred(order)
        /\ Idle

StartApply ==
    \E order \in QueueOrders :
        /\ Over
        /\ apply_deferred(order)
        /\ Idle

NextStart ==
    \/ FrameListener
    \/ StartGeneration
    \/ StartSync
    \/ StartApply
    \/ PanelRest
    \/ PlayPause
    \/ StepButton

SpecStart == InitStart /\ [][NextStart]_vars

----------------------------------------------------------------------------
(* Editing while paused: the grid after start-up and "Clear Grid"; the     *)
(* keyboard is left alone, and the period is not changed, so that the       *)
(* listener leaves the timer alone                                          *)

EditSystems == Systems \ {"keyboard", "listener"}

\* "Clear Grid" in the first frame, the query yielding the handles in the
\* order of their allocation
Cleared ==
    LET cleared == KillLoop([pool |-> <<>>, cmds |-> <<>>],
                            Ascending(AliveQuery(setup_initial_pattern)))
    IN  /\ ents = ApplyCommands(setup_initial_pattern, cleared.cmds)
        /\ pool = cleared.pool
        /\ config = [DefaultConfig EXCEPT !.running = FALSE]
        /\ changed = TRUE
        /\ timer = TimerNew(DefaultPeriod)
        /\ last_painted = None
        /\ placement_mode = DefaultPlacement
        /\ rle_loader = DefaultLoader
        /\ hist = HistOf("clear")
        /\ gens = 0
        /\ seed = {}
        /\ rle_call = NoCall

InitEdit ==
    /\ Cleared
    /\ \E mouse \in MouseInputs : frame = FirstFrame(EditSystems, mouse)

\* from one frame to the next of an editing session
EditTurn ==
    /\ frame.n < EditFrames
    /\ \E mouse \in MouseInputs : NextFrame(mouse, frame.n + 1)
    /\ Idle

EditRest == PanelUnused /\ EditTurn

EditStep == NextGenerationButton /\ EditTurn

EditPattern == \E name \in BundledNames : PatternButton(name) /\ EditTurn

EditClear == ClearGridButton /\ EditTurn

EditRandom ==
    \E width \in RandomWidths :
        \E picked \in RandomPicks :
            RandomCellsButton(width, picked) /\ Bounded /\ EditTurn

NextEdit ==
    \/ FrameGeneration
    \/ FrameMouse
    \/ FrameResetPaint
    \/ FrameSync
    \/ FrameApply
    \/ EditRest
    \/ EditStep
    \/ EditPattern
    \/ EditClear
    \/ EditRandom

SpecEdit == InitEdit /\ [][NextEdit]_vars

----------------------------------------------------------------------------
(* The pattern tools: the pattern buttons, the RLE loader and the placement *)

InitPattern ==
    /\ Cleared
    /\ \E mouse \in PatternMouse : frame = FirstFrame(EditSystems, mouse)

PatternTurn ==
    /\ frame.n < PatternFrames
    /\ \E mouse \in PatternMouse : NextFrame(mouse, frame.n + 1)
    /\ Idle

PatternRest == PanelUnused /\ PatternTurn

PatternPlayPause == PlayPauseButton /\ PatternTurn

PatternChoose == \E name \in BundledNames : PatternButton(name) /\ PatternTurn

PatternCancel == CancelPlacementButton /\ PatternTurn

PatternLoadRle == LoadRleButton /\ PatternTurn

PatternRleEdit == \E text \in RleTexts : RleTextEdit(text) /\ PatternTurn

PatternRleCancel == RleCancelButton /\ PatternTurn

PatternRleLoad == RleLoadButton /\ PatternTurn

NextPattern ==
    \/ FrameGeneration
    \/ FrameMouse
    \/ FrameResetPaint
    \/ FrameSync
    \/ FrameApply
    \/ PatternRest
    \/ PatternPlayPause
    \/ PatternChoose
    \/ PatternCancel
    \/ PatternLoadRle
    \/ PatternRleEdit
    \/ PatternRleCancel
    \/ PatternRleLoad

SpecPattern == InitPattern /\ [][NextPattern]_vars

----------------------------------------------------------------------------
(* The systems that share the pool, on the cleared grid: the period is not  *)
(* changed, so that the listener leaves the timer alone                     *)

RaceSystems == Systems \ {"listener"}

\* the pattern the user picks during the frames
FramePatterns == {"pufferfish"}

InitFrame ==
    /\ Cleared
    /\ \E mouse \in MouseInputs : frame = FirstFrame(RaceSystems, mouse)

FrameTurn ==
    /\ frame.n < MaxFrames
    /\ \E mouse \in MouseInputs : NextFrame(mouse, frame.n + 1)
    /\ Idle

FrameRest == PanelUnused /\ FrameTurn

FrameClear == ClearGridButton /\ FrameTurn

FramePlayPause == PlayPauseButton /\ FrameTurn

FrameStep == NextGenerationButton /\ FrameTurn

FramePattern == \E name \in FramePatterns : PatternButton(name) /\ FrameTurn

NextFrames ==
    \/ FrameGeneration
    \/ FrameKeyboard
    \/ FrameMouse
    \/ FrameResetPaint
    \/ FrameSync
    \/ FrameApply
    \/ FrameRest
    \/ FrameClear
    \/ FramePlayPause
    \/ FrameStep
    \/ FramePattern

SpecFrame == InitFrame /\ [][NextFrames]_vars

----------------------------------------------------------------------------
(* Frame after frame on the cleared grid: SimulationPlugin and the panel,   *)
(* for as long as the application runs                                      *)

InitLive == Cleared /\ frame = FirstFrame(SimulationSystems, MouseUp)

\* the generations are counted round, so that each one is a step
LiveScheduler ==
    \E delta \in 0..MaxDelta :
        /\ Runs("generation")
        /\ calculate_next_generation(delta)
        /\ gens' = IF hist'.computed THEN (gens + 1) % (MaxGens + 1) ELSE gens
        /\ UNCHANGED <<seed, rle_call>>

\* the panel, used or not, and the next frame
LivePanel ==
    /\ \/ PanelUnused
       \/ \E period \in 1..MaxPeriod : SpeedSlider(period)
       \/ PlayPauseButton
    /\ Turn

NextLive ==
    \/ FrameListener
    \/ LiveScheduler
    \/ FrameApply
    \/ LivePanel

SpecLive ==
    /\ InitLive
    /\ [][NextLive]_vars
    /\ WF_vars(FrameListener)
    /\ WF_vars(LiveScheduler)
    /\ WF_vars(FrameApply)
    /\ WF_vars(LivePanel)

----------------------------------------------------------------------------
(* Fixtures: the application paused after start-up ("Pause"), then "Random   *)
(* Cells" with the generator picking the fixture; the grid is stepped with   *)
(* "Next Generation", the keyboard and the mouse are left alone              *)

SeedCells == (0..(SeedW - 1)) \X (-1..1)
\* room for the generations of a fixture
SeedUniverse == ((-1)..SeedW) \X (-2..2)

\* "Random Cells" on the start-up pattern, with display_config.random_grid_width
\* at FixtureWidth and the query yielding the handles in the order of their
\* allocation: the start-up handles are pooled, the picked cells spawned
FixtureCleared ==
    KillLoop([pool |-> <<>>, cmds |-> <<>>],
             Ascending(AliveQuery(setup_initial_pattern)))
FixtureWorld(picked) ==
    LET offset == -(FixtureWidth \div 2)
    IN  ApplyCommands(setup_initial_pattern,
                      FixtureCleared.cmds
                        \o generate_random_cells(offset, offset, FixtureWidth,
                                                 FixtureWidth, picked))

InitGen ==
    /\ seed \in {s \in SUBSET SeedCells : Cardinality(s) <= MaxSeed}
    /\ ents = FixtureWorld(seed)
    /\ pool = FixtureCleared.pool
    /\ config = [DefaultConfig EXCEPT !.running = FALSE]
    /\ changed = FALSE
    /\ timer = TimerNew(DefaultPeriod)
    /\ last_painted = None
    /\ placement_mode = DefaultPlacement
    /\ rle_loader = DefaultLoader
    /\ hist = HistOf("fixture")
    /\ gens = 0
    /\ rle_call = NoCall
    /\ frame = FirstFrame(StartSystems, MouseUp)

FixtureStep == gens < FixtureGens /\ NextGenerationButton /\ Turn

FixtureRest == PanelUnused /\ Turn

FixtureGeneration ==
    \E delta \in 0..MaxDelta :
        /\ Runs("generation")
        /\ calculate_next_generation(delta)
        /\ Counted
        /\ UNCHANGED <<seed, rle_call>>

FixtureApply ==
    \E order \in QueueOrders :
        /\ Over
        /\ apply_deferred(order)
        /\ InGrid(ents', SeedUniverse)
        /\ Idle

NextGen ==
    \/ FrameListener
    \/ FixtureGeneration
    \/ StartSync
    \/ FixtureApply
    \/ FixtureStep
    \/ FixtureRest

SpecGen == InitGen /\ [][NextGen]_vars
----------------------------------------------------------------------------
(* The first application: CellSystem (cellule.rs) and GuiSystem (gui.rs) *)

\* the positions a query yields, one per handle
QueryPositions(w, query) == [i \in 1..Len(query) |-> w[query[i]].pos]

\* the body of cell_system below its gate: the counting loop walks the alive
\* query itself, the rule is written in place (2 | 3 survive, 3 is born); the
\* outcomes it may have
cell_generation(w, p) ==
    LET alive_positions == AlivePositionsOf(w)
        neighbors == CountCells(EmptyMap,
                                QueryPositions(w, Ascending(AliveQuery(w))))
    IN  {KillAndSpawn(p, kill, spawn) :
            kill \in Orders({entity \in AliveQuery(w) :
                                CountAt(neighbors, w[entity].pos) \notin {2, 3}}),
            spawn \in Orders({pos \in DOMAIN neighbors :
                                 neighbors[pos] = 3 /\ pos \notin alive_positions})}

\* cell_system, one invocation with frame time delta
cell_system(delta) ==
    LET ticked == TimerTick(timer, delta)
        fires == IF config.running THEN ticked.finished
                 ELSE config.calculate_next_gen
    IN  /\ timer' = IF config.running THEN ticked ELSE timer
        /\ config' = IF ~config.running /\ config.calculate_next_gen
                     THEN [config EXCEPT !.calculate_next_gen = FALSE]
                     ELSE config
        /\ changed' = (changed \/ (~config.running /\ config.calculate_next_gen))
        /\ IF fires
           THEN \E g \in cell_generation(ents, pool) :
                    /\ pool' = g.pool
                    /\ frame' = Queue("generation", g.cmds)
                    /\ hist' = [Hist("generation", TRUE, g.kill, g.spawn, g.poolMid)
                                   EXCEPT !.delta = delta]
           ELSE /\ UNCHANGED pool
                /\ frame' = Ran("generation")
                /\ hist' = [HistOf("generation") EXCEPT !.delta = delta]
        /\ UNCHANGED <<ents, last_painted, placement_mode, rle_loader>>

\* Query<(Entity, &CellPosition)>: every entity that still exists
CellQuery(w) == {e \in 1..Len(w) : w[e].live}

RECURSIVE DespawnAll(_)
DespawnAll(query) ==
    IF query = <<>> THEN <<>>
    ELSE <<CmdDespawn(Head(query))>> \o DespawnAll(Tail(query))

\* gui.rs clear_cells: every entity with a CellPosition is despawned.  The loop
\* queues the despawns in the order of the query; a run of despawns leaves the
\* same world in whatever order it is applied, and is listed here by handle.
gui_clear_cells(w) == DespawnAll(Ascending(CellQuery(w)))

\* commands.spawn(CellPosition { x, y }) for each listed cell
RECURSIVE SpawnAllBare(_)
SpawnAllBare(cells) ==
    IF cells = <<>> THEN <<>>
    ELSE <<CmdSpawnBare(Head(cells))>> \o SpawnAllBare(Tail(cells))

\* gui.rs generate_random_cells
gui_generate_random_cells(x, y, width, height, picked) ==
    SpawnAllBare(ColumnMajor(picked \cap ((x..(x + width - 1)) \X (y..(y + height - 1)))))

RECURSIVE InsertSprites(_)
InsertSprites(query) ==
    IF query = <<>> THEN <<>>
    ELSE <<CmdInsertSprite(Head(query))>> \o InsertSprites(Tail(query))

\* gui.rs draw_new_cells_system: Query<.., Added<CellPosition>> yields the
\* entities that got their position since the system last ran, which are those
\* allocated since then (frame.drawn handles had been allocated) that still
\* exist.  Inserts on different entities leave the same world in whatever
\* order they are applied, and are listed here by handle.
gui_draw_new_cells_system ==
    LET query == {e \in CellQuery(ents) : e > frame.drawn}
    IN  /\ frame' = [Queue("draw", InsertSprites(Ascending(query)))
                        EXCEPT !.drawn = Len(ents)]
        /\ hist' = HistOf("draw")
        /\ UNCHANGED <<ents, pool, config, changed, timer, last_painted,
                       placement_mode, rle_loader>>

\* gui.rs mouse_click_system with the cursor on new_cell
gui_mouse_click_system(new_cell, just_released) ==
    /\ UNCHANGED <<ents, pool, config, changed, timer, last_painted,
                   placement_mode, rle_loader>>
    /\ IF config.running \/ ~just_released
       THEN /\ frame' = Ran("mouse")
            /\ hist' = HistOf("mouse")
       ELSE /\ hist' = Hist("click", FALSE, <<>>, <<new_cell>>, <<>>)
            /\ IF FirstAt(ents, CellQuery(ents), new_cell) = {}
               THEN frame' = Queue("mouse", <<CmdSpawnBare(new_cell)>>)
               ELSE \E entity \in FirstAt(ents, CellQuery(ents), new_cell) :
                        frame' = Queue("mouse", <<CmdDespawn(entity)>>)

\* gui.rs keyboard_input_system_config: the simulation controls (Space, R, N)
keyboard_input_system_config(space, key_r, key_n) ==
    LET running1 == IF space THEN ~config.running ELSE config.running
        running2 == IF key_r THEN FALSE ELSE running1
        step == key_n /\ ~running2
    IN  /\ config' = [config EXCEPT
                        !.running = running2,
                        !.calculate_next_gen = IF step THEN TRUE ELSE @]
        /\ changed' = (changed \/ space \/ key_r \/ step)
        /\ IF key_r
           THEN frame' = [Queue("keyboard", gui_clear_cells(ents))
                             EXCEPT !.key_r = TRUE]
           ELSE frame' = Ran("keyboard")
        /\ hist' = HistOf(IF key_r THEN "clear" ELSE "keyboard")
        /\ UNCHANGED <<ents, pool, timer, last_painted, placement_mode,
                       rle_loader>>

\* gui_system: "Yes" in the reset dialog
gui_reset_button ==
    /\ config' = [config EXCEPT !.running = FALSE]
    /\ changed' = TRUE
    /\ ents' = ApplyCommands(ents, gui_clear_cells(ents))
    /\ hist' = HistOf("clear")
    /\ UNCHANGED <<pool, timer, last_painted, placement_mode, rle_loader>>

\* gui_system: "Yes" in the random dialog
gui_random_button(width, picked) ==
    LET offset == -(width \div 2)
    IN  /\ picked \subseteq (offset..(offset + width - 1)) \X (offset..(offset + width - 1))
        /\ ents' = ApplyCommands(
                      ents, gui_clear_cells(ents)
                            \o gui_generate_random_cells(
                                  offset, offset, width, width, picked))
        /\ hist' = Hist("random", FALSE, <<>>, ColumnMajor(picked), <<>>)
        /\ UNCHANGED <<pool, config, changed, timer, last_painted,
                       placement_mode, rle_loader>>

\* Update of the first application, its listener left out as the period is
\* not changed; Update of CellSystem on its own, as the tests build it
LegacySystems == {"draw", "keyboard", "mouse", "sync", "generation"}

\* orders in which the queues of its systems may be applied
LegacyQueueOrders == Orders({"draw", "generation", "keyboard", "mouse"})

LegacyBounded == Len(ents') <= LegacyEnts /\ InGrid(ents', Universe)

InitLegacy ==
    /\ StartUp
    /\ \/ frame = FirstFrame(SimulationSystems, MouseUp)
       \/ \E mouse \in PatternMouse : frame = FirstFrame(LegacySystems, mouse)

LegacyScheduler ==
    \E delta \in 0..MaxDelta :
        /\ Runs("generation")
        /\ cell_system(delta)
        /\ Counted
        /\ UNCHANGED <<seed, rle_call>>

LegacyDraw ==
    /\ Runs("draw")
    /\ gui_draw_new_cells_system
    /\ Idle

LegacyKeyboard ==
    \E space, key_r, key_n \in BOOLEAN :
        /\ Runs("keyboard")
        /\ keyboard_input_system_config(space, key_r, key_n)
        /\ Idle

LegacyMouse ==
    /\ Runs("mouse")
    /\ gui_mouse_click_system(frame.mouse.cell, frame.mouse.button = "released")
    /\ Idle

LegacyTurn ==
    /\ frame.n < LegacyFrames
    /\ \E mouse \in PatternMouse :
           /\ frame.app = SimulationSystems => mouse = MouseUp
           /\ NextFrame(mouse, frame.n + 1)
    /\ Idle

LegacyRest ==
    /\ hist' = HistOf("panel")
    /\ UNCHANGED <<ents, pool, config, changed, timer, last_painted,
                   placement_mode, rle_loader>>
    /\ LegacyTurn

\* between two updates the harness pauses and requests a step
\* (tests/gol.rs: en_cours = false, calcule_prochaine_gen = true)
request_step ==
    /\ config' = [config EXCEPT !.running = FALSE, !.calculate_next_gen = TRUE]
    /\ changed' = TRUE
    /\ hist' = HistOf("request")
    /\ UNCHANGED <<ents, pool, timer, last_painted, placement_mode, rle_loader>>

LegacyRequest ==
    /\ frame.app = SimulationSystems
    /\ request_step
    /\ LegacyTurn

LegacyReset ==
    /\ frame.app = LegacySystems
    /\ gui_reset_button
    /\ LegacyTurn

LegacyRandom ==
    \E width \in RandomWidths :
        \E picked \in RandomPicks :
            /\ frame.app = LegacySystems
            /\ gui_random_button(width, picked)
            /\ LegacyBounded
            /\ LegacyTurn

LegacySync ==
    \E order \in LegacyQueueOrders :
        /\ Runs("sync")
        /\ apply_deferred(order)
        /\ LegacyBounded
        /\ Idle

LegacyApply ==
    \E order \in LegacyQueueOrders :
        /\ Over
        /\ apply_deferred(order)
        /\ LegacyBounded
        /\ Idle

NextLegacy ==
    \/ FrameListener
    \/ LegacyScheduler
    \/ LegacyDraw
    \/ LegacyKeyboard
    \/ LegacyMouse
    \/ LegacySync
    \/ LegacyApply
    \/ LegacyRest
    \/ LegacyRequest
    \/ LegacyReset
    \/ LegacyRandom

SpecLegacy == InitLegacy /\ [][NextLegacy]_vars

----------------------------------------------------------------------------
(* The pattern decoder on its own: one call of parse_rle on a text *)

\* lines that pattern files carry before the body
CommentLine == <<"#", "C", " ", "g", "l", "i", "d", "e", "r", "\n">>
OriginLine == <<"#", "O", " ", "C", "o", "n", "w", "a", "y", "\n">>
HeaderLine == <<"x", " ", "=", " ", "3", ",", " ", "y", " ", "=", " ", "3", "\n">>
RleHeaders == { <<>>, CommentLine, OriginLine, HeaderLine }

\* bodies: every text of up to MaxRleLen of these bytes, and the two of the
\* decoder's documentation
ShortBytes == {"0", "2", "b", "o", "$", "!", "x"}
ShortTexts == UNION { [1..n -> ShortBytes] : n \in 0..MaxRleLen }
Glider == <<"b", "o", "$", "2", "b", "o", "$", "3", "o", "!">>
Row == <<"3", "o", "!">>

\* bodies with a digit run or a cursor at the edge of i32
WideTexts ==
    { WideRow,
      <<"3", "0", "0", "0", "0", "0", "0", "0", "0", "0", "o", "!">>,
      <<"2", "1", "4", "7", "4", "8", "3", "6", "4", "7", "b", "o", "!">>,
      <<"2", "1", "4", "7", "4", "8", "3", "6", "4", "7", "$", "$", "o">>,
      <<"9", "9", "9", "9", "9", "9", "9", "9", "9", ".", "o">> }

RleInputs ==
    (RleHeaders \X (ShortTexts \cup {Glider, Row})) \cup ({<<>>} \X WideTexts)

InitRle ==
    /\ ents = setup_initial_pattern
    /\ pool = <<>>
    /\ config = DefaultConfig
    /\ changed = TRUE
    /\ timer = TimerNew(DefaultPeriod)
    /\ last_painted = None
    /\ placement_mode = DefaultPlacement
    /\ rle_loader = DefaultLoader
    /\ hist = HistOf("init")
    /\ gens = 0
    /\ seed = AlivePositionsOf(setup_initial_pattern)
    /\ \E input \in RleInputs :
           rle_call = [NoCall EXCEPT !.header = input[1], !.body = input[2]]
    /\ frame = NoFrame

\* Patterns::from_rle_string(text) in a build with or without overflow checks
Decode ==
    /\ ~rle_call.done
    /\ \E overflow_checks \in BOOLEAN :
           LET out == parse_rle(rle_call.header \o rle_call.body,
                                      overflow_checks)
           IN  rle_call' = [rle_call EXCEPT !.done = TRUE,
                                            !.overflow_checks = overflow_checks,
                                            !.cells = out.cells,
                                            !.panicked = out.panicked]
    /\ UNCHANGED <<ents, pool, config, changed, timer, last_painted,
                   placement_mode, rle_loader, hist, gens, seed, frame>>

NextRle == Decode
SpecRle == InitRle /\ [][NextRle]_vars

----------------------------------------------------------------------------
(* Conway's rule B3/S23 on a set of coordinates, for reference *)

Adjacent(c, d) ==
    c # d /\ (c[1] - d[1]) \in -1..1 /\ (c[2] - d[2]) \in -1..1

LiveNeighbours(S, c) == Cardinality({d \in S : Adjacent(c, d)})

Halo(S) ==
    S \cup UNION {{<<c[1] + dx, c[2] + dy>> : dx \in -1..1, dy \in -1..1} : c \in S}

Life(S) ==
    {c \in Halo(S) : IF c \in S THEN LiveNeighbours(S, c) \in {2, 3}
                                 ELSE LiveNeighbours(S, c) = 3}

Blinker == { <<0, 0>>, <<1, 0>>, <<2, 0>> }
BlinkerTurned == { <<1, -1>>, <<1, 0>>, <<1, 1>> }

ComputedGeneration == hist.op = "generation" /\ hist.computed


\* the alive set the commands a generation has queued make of the world
GenerationResult ==
    AlivePositionsOf(ApplyCommands(ents, frame'.queued.generation))

\* the invocation ran the body of calculate_next_generation once
OneGeneration ==
    \E g \in next_generation(ents, pool) :
        pool' = g.pool /\ frame'.queued.generation = g.cmds

\* the invocation queued nothing and left the cells and the pool alone
NothingQueued == ents' = ents /\ pool' = pool /\ frame'.queued = frame.queued

----------------------------------------------------------------------------
(* Properties *)

\* C1: a generation the scheduler computes leaves alive exactly the coordinates
\* that B3/S23 keeps or brings to life on the alive set as it was when the
\* tick started.
C1_GenerationIsB3S23 ==
    [][(hist'.op = "generation" /\ hist'.computed)
          => GenerationResult = Life(AlivePositions)]_vars

\* C2: while paused, an invocation of the scheduler computes a generation
\* exactly when the single-step flag is set, computes one generation, and
\* leaves the flag false; an invocation that finds the flag false changes
\* neither the cells nor the pool.
C2_OneRequestOneGeneration ==
    [][(hist'.op = "generation" /\ ~config.running)
          => /\ hist'.computed = config.calculate_next_gen
             /\ ~config'.calculate_next_gen
             /\ hist'.computed => OneGeneration
             /\ ~hist'.computed => NothingQueued]_vars

C2_Witness ==
    /\ hist.op = "generation"
    /\ ~hist.computed
    /\ gens = 1
    /\ ~config.calculate_next_gen
    /\ AlivePositions # seed

\* C3: while running, an invocation of the scheduler advances the repeating
\* timer by the frame time, computes a generation exactly when the timer
\* fired in that invocation, computes one generation however many periods the
\* frame time spans, and otherwise leaves the cells and the pool unchanged.
C3_TimerGatesGeneration ==
    [][(hist'.op = "generation" /\ config.running)
          => LET elapsed == timer.elapsed + hist'.delta
                 fired == elapsed >= timer.duration
             IN  /\ timer'.elapsed = IF fired THEN elapsed % timer.duration
                                               ELSE elapsed
                 /\ timer'.finished = fired
                 /\ hist'.computed = fired
                 /\ fired => OneGeneration
                 /\ ~fired => NothingQueued]_vars

C3_Witness ==
    /\ ComputedGeneration
    /\ config.running
    /\ hist.delta >= 2 * timer.duration
    /\ hist.kill # <<>>
    /\ hist.spawn # <<>>

\* C4: once the pending commands are applied, no handle of the dead pool is
\* alive, after any sequence of generations, hand-paint clicks, pattern
\* placements and clear-grid operations.
C4_PoolDisjointFromAlive ==
    frame.queued = NoQueue => PoolSet \cap AliveQuery(ents) = {}

\* C5: every coordinate is occupied by at most one alive handle.
C5_OneHandlePerCoordinate ==
    \A e, f \in AliveQuery(ents) : ents[e].pos = ents[f].pos => e = f

\* C6: a handle killed by a generation is in the pool exactly once when the
\* kill loop has run, its coordinate is not alive after the tick, and after
\* the tick the handle is still pooled exactly once unless the same tick's
\* spawn loop has taken it back.
C6_KilledHandlePooledOnce ==
    [][(hist'.op = "generation" /\ hist'.computed)
          => \A i \in 1..Len(hist'.kill) :
                LET entity == hist'.kill[i]
                    after == ApplyCommands(ents, frame'.queued.generation)
                IN  /\ ents[entity].pos \notin AlivePositionsOf(after)
                    /\ Occurrences(hist'.poolMid, entity) = 1
                    /\ \/ Occurrences(pool', entity) = 1
                       \/ /\ entity \in AliveQuery(after)
                          /\ Occurrences(pool', entity) = 0]_vars

\* a queue holds the allocation of a new handle
Allocates(cmds) == \E i \in 1..Len(cmds) : cmds[i].c = "spawn_alive"

\* C7: an operation allocates a new handle only when the dead pool has no
\* handle left to reuse, so the pool is empty after any operation that
\* allocated one.
C7_AllocateOnlyWhenPoolEmpty ==
    [][/\ \A system \in DOMAIN NoQueue :
              (frame.queued[system] = <<>> /\ Allocates(frame'.queued[system]))
                 => pool' = <<>>
       /\ (frame.phase = "egui" /\ Len(ents') > Len(ents)) => pool' = <<>>]_vars

\* C8: every handle in the dead pool refers to an entity that still exists.
C8_PooledHandlesExist ==
    \A i \in 1..Len(pool) : ents[pool[i]].live

\* C9: no coordinate whose cell a tick kills is on the spawn-list of the
\* same tick.
C9_KillAndSpawnDisjoint ==
    [][(hist'.op = "generation" /\ hist'.computed)
          => {ents[hist'.kill[i]].pos : i \in 1..Len(hist'.kill)}
                \cap SeqToSet(hist'.spawn) = {}]_vars

C9_Witness ==
    /\ ComputedGeneration
    /\ Len(hist.kill) >= 2
    /\ Len(hist.spawn) >= 2

\* the commands of the frame are applied
Applied == frame.phase = "egui" /\ hist.op = "apply"

\* C10: from the blinker {(0,0),(1,0),(2,0)} the first generation is
\* {(1,-1),(1,0),(1,1)} and the second is the blinker again.
C10_BlinkerOscillates ==
    [][/\ (seed = Blinker /\ hist'.op = "generation" /\ hist'.computed)
          => /\ gens = 0 => (/\ AlivePositions = Blinker
                             /\ GenerationResult = BlinkerTurned)
             /\ gens = 1 => (/\ AlivePositions = BlinkerTurned
                             /\ GenerationResult = Blinker)
       /\ (seed = Blinker /\ frame.phase = "egui")
          => /\ gens = 1 => AlivePositions = BlinkerTurned
             /\ gens = 2 => AlivePositions = Blinker]_vars

C10_Witness ==
    /\ seed = Blinker
    /\ gens = 2
    /\ Applied
    /\ AlivePositions = Blinker

Block == { <<0, 0>>, <<1, 0>>, <<0, 1>>, <<1, 1>> }

\* C11: from the block {(0,0),(1,0),(0,1),(1,1)} every generation leaves the
\* alive set equal to the block, kills and spawns nothing, and leaves the
\* handles and the pool as they were.
C11_BlockIsFixed ==
    seed = Block
        => /\ AlivePositions = Block
           /\ ents = FixtureWorld(Block)
           /\ pool = FixtureCleared.pool
           /\ frame.queued = NoQueue
           /\ hist.kill = <<>> /\ hist.spawn = <<>>
           /\ ComputedGeneration => hist.poolMid = FixtureCleared.pool

C11_Witness ==
    /\ seed = Block
    /\ gens = FixtureGens
    /\ Applied

Translated(S, dx, dy) == {<<c[1] + dx, c[2] + dy>> : c \in S}

\* C12: four generations after start-up the alive set is the start-up alive
\* set moved by (+1,+1).
C12_StartupPatternDrifts ==
    (gens = 4 /\ frame.phase = "egui")
        => AlivePositions = Translated(seed, 1, 1)

StartupCells == { <<0, 0>>, <<-1, 0>>, <<0, -1>>, <<0, 1>>, <<1, 1>> }

\* C13: start-up leaves exactly five cells, at (0,0), (-1,0), (0,-1), (0,1)
\* and (1,1); a generation computed from there, and the update in which
\* nothing else is done, leave exactly six entities carrying a position,
\* among them cells at (0,-1), (-1,-1), (-1,1), (0,1) and (1,1).
C13_StartupThenOneStep ==
    [][/\ hist.op = "init"
          => /\ Cardinality(CellQuery(ents)) = 5
             /\ {ents[e].pos : e \in CellQuery(ents)} = StartupCells
       /\ (/\ ents = setup_initial_pattern
           /\ hist'.op = "generation"
           /\ hist'.computed)
          => LET after == ApplyCommands(ents, frame'.queued.generation)
             IN  /\ Cardinality(CellQuery(after)) = 6
                 /\ { <<0, -1>>, <<-1, -1>>, <<-1, 1>>, <<0, 1>>, <<1, 1>> }
                       \subseteq {after[e].pos : e \in CellQuery(after)}
       /\ (/\ ents = setup_initial_pattern
           /\ frame.queued.generation # <<>>
           /\ frame.queued.keyboard = <<>>
           /\ frame.queued.mouse = <<>>
           /\ hist'.op = "apply")
          => /\ Cardinality(CellQuery(ents')) = 6
             /\ { <<0, -1>>, <<-1, -1>>, <<-1, 1>>, <<0, 1>>, <<1, 1>> }
                   \subseteq {ents'[e].pos : e \in CellQuery(ents')}]_vars

C13_Witness ==
    /\ frame.app = SimulationSystems
    /\ Applied
    /\ gens = 1
    /\ ~config.running
    /\ frame.n = 2
    /\ Len(ents) = 6
    /\ Cardinality(CellQuery(ents)) = 6

\* The cursor semantics of the RLE format, for reference: the run count is
\* the decimal number written since the last tag, 1 if none is written.
\* r = [cells, x, y, n, written, beyond]; beyond: a number left the range of
\* the coordinates.
RleAlphabet == Digits \cup {"b", ".", "o", "$", "!"}
RECURSIVE Cursor(_, _)
Cursor(r, text) ==
    IF text = <<>> \/ Head(text) = "!" \/ r.beyond THEN r
    ELSE LET byte == Head(text)
             n == IF r.written THEN r.n ELSE 1
             tagged == [r EXCEPT !.n = 0, !.written = FALSE]
         IN  CASE byte \in Digits ->
                    IF r.n > (Int32Max - DigitValue(byte)) \div 10
                    THEN [r EXCEPT !.beyond = TRUE]
                    ELSE Cursor([r EXCEPT !.n = r.n * 10 + DigitValue(byte),
                                          !.written = TRUE], Tail(text))
               [] byte \in {"b", ".", "o"} /\ r.x > Int32Max - n ->
                    [r EXCEPT !.beyond = TRUE]
               [] byte \in {"b", "."} ->
                    Cursor([tagged EXCEPT !.x = r.x + n], Tail(text))
               [] byte = "o" ->
                    Cursor([tagged EXCEPT
                              !.cells = r.cells
                                          \o [i \in 1..n |-> <<r.x + i - 1, r.y>>],
                              !.x = r.x + n], Tail(text))
               [] byte = "$" /\ r.y > Int32Max - n ->
                    [r EXCEPT !.beyond = TRUE]
               [] byte = "$" ->
                    Cursor([tagged EXCEPT !.y = r.y + n, !.x = 0], Tail(text))
               [] OTHER -> Cursor(r, Tail(text))
CursorDecode(text) ==
    Cursor([cells |-> <<>>, x |-> 0, y |-> 0, n |-> 0, written |-> FALSE,
            beyond |-> FALSE], text)

CallText == rle_call.header \o rle_call.body

\* C14: on every text over the RLE alphabet parse_rle returns the list of the
\* reference cursor semantics (run count: the decimal number written since the
\* last tag, 1 if none); "bo$2bo$3o!" decodes to the cells (1,0), (2,1),
\* (0,2), (1,2), (2,2) and "3o!" to the list (0,0), (1,0), (2,0).
C14_DecodesAsCursorSemantics ==
    (rle_call.done /\ SeqToSet(CallText) \subseteq RleAlphabet)
        => /\ ~rle_call.panicked
           /\ ~CursorDecode(CallText).beyond
           /\ rle_call.cells = CursorDecode(CallText).cells
           /\ CallText = Glider
                 => SeqToSet(rle_call.cells)
                      = { <<1, 0>>, <<2, 1>>, <<0, 2>>, <<1, 2>>, <<2, 2>> }
           /\ CallText = Row
                 => rle_call.cells = << <<0, 0>>, <<1, 0>>, <<2, 0>> >>

\* C15: a body preceded by comment lines or a header line decodes to the list
\* the body alone decodes to.
C15_HeaderLinesAreTolerated ==
    rle_call.done
        => [cells |-> rle_call.cells, panicked |-> rle_call.panicked]
             = parse_rle(rle_call.body, rle_call.overflow_checks)

\* C16: decoding stops at the first "!": for a text s "!" t, the call returns
\* what it returns on s "!" and on s.
C16_StopsAtFirstBang ==
    rle_call.done
        => \A i \in 1..Len(CallText) :
               CallText[i] = "!"
                   => /\ [cells |-> rle_call.cells, panicked |-> rle_call.panicked]
                          = parse_rle(SubSeq(CallText, 1, i),
                                            rle_call.overflow_checks)
                      /\ [cells |-> rle_call.cells, panicked |-> rle_call.panicked]
                          = parse_rle(SubSeq(CallText, 1, i - 1),
                                            rle_call.overflow_checks)

C16_Witness ==
    /\ rle_call.done
    /\ rle_call.header = <<>>
    /\ rle_call.body = <<"o", "!", "o">>
    /\ rle_call.cells = << <<0, 0>> >>

\* C17: parse_rle returns a list on every text and never fails, also when a
\* digit run leaves the range of i32.
C17_DecoderIsTotal == rle_call.done => ~rle_call.panicked

\* C18: the keys of calculate_neighbor_counts are exactly the coordinates with
\* at least one alive Moore neighbour, each with the exact number of them
\* (1..8); an alive cell adds nothing to its own count, and an alive cell
\* without alive neighbour has no entry.
C18_NeighborCountsAreExact ==
    LET neighbors == calculate_neighbor_counts(AlivePositions)
    IN  /\ DOMAIN neighbors
             = {c \in Halo(AlivePositions) : LiveNeighbours(AlivePositions, c) >= 1}
        /\ \A c \in DOMAIN neighbors :
               /\ neighbors[c] = LiveNeighbours(AlivePositions, c)
               /\ neighbors[c] \in 1..8
        /\ \A c \in AlivePositions :
               LiveNeighbours(AlivePositions, c) = 0 => c \notin DOMAIN neighbors

C18_Witness ==
    /\ ComputedGeneration
    /\ gens = 1
    /\ \E c \in seed : c \notin DOMAIN calculate_neighbor_counts(seed)
    /\ \E c \in seed \cap DOMAIN calculate_neighbor_counts(seed) :
           calculate_neighbor_counts(seed)[c] = 2
    /\ \E c \in DOMAIN calculate_neighbor_counts(seed) :
           c \notin seed /\ calculate_neighbor_counts(seed)[c] = 3

\* C19: for every neighbour count n of 0..8, should_cell_survive(n) holds
\* exactly when n is 2 or 3 and should_cell_be_born(n) exactly when n is 3.
C19_RulesAreB3S23 ==
    LET neighbors == calculate_neighbor_counts(AlivePositions)
    IN  \A n \in 0..8 \cup {neighbors[c] : c \in DOMAIN neighbors} :
            /\ should_cell_survive(n) <=> n \in {2, 3}
            /\ should_cell_be_born(n) <=> n = 3

C19_Witness ==
    /\ ComputedGeneration
    /\ gens = 1
    /\ Cardinality(seed) = MaxSeed
    /\ 1..4 \subseteq {calculate_neighbor_counts(seed)[c] :
                          c \in DOMAIN calculate_neighbor_counts(seed)}
    /\ hist.kill # <<>>
    /\ hist.spawn # <<>>

\* C20: while the simulation is paused and no single step is requested, an
\* invocation of the scheduler changes nothing: the elapsed time of the timer,
\* the alive set, the pool and the configuration stay as they are.
C20_PausedSchedulerIsIdle ==
    [][(hist'.op = "generation" /\ ~config.running /\ ~config.calculate_next_gen)
          => /\ timer' = timer
             /\ NothingQueued
             /\ config' = config
             /\ changed' = changed
             /\ ~hist'.computed]_vars

C20_Witness ==
    /\ hist.op = "generation"
    /\ ~hist.computed
    /\ hist.delta > 0
    /\ ~config.running
    /\ ~config.calculate_next_gen
    /\ timer.elapsed > 0
    /\ gens > 0

\* C21: when the configuration has changed and its period differs from the
\* duration of the timer, the listener sets the duration to the period and
\* the elapsed time to zero; when the configuration has changed and the period
\* equals the duration, the listener leaves the timer as it is.
C21_ListenerFollowsPeriod ==
    [][(hist'.op = "listener" /\ changed)
          => /\ config.period # timer.duration
                 => (timer'.duration = config.period /\ timer'.elapsed = 0)
             /\ config.period = timer.duration => timer' = timer]_vars

C21_Witness ==
    /\ hist.op = "listener"
    /\ timer.duration # DefaultPeriod
    /\ timer.duration = config.period
    /\ timer.elapsed = 0
    /\ gens > 0

\* C22: while paused, a click on the coordinate c toggles exactly c: an alive
\* c becomes dead, a dead c becomes alive, and no other coordinate changes;
\* while running, a click changes no cell.
C22_ClickTogglesExactlyCell ==
    [][/\ hist'.op = "paint"
          => LET c == hist'.spawn[1]
             IN  AlivePositionsOf(ApplyCommands(ents, frame'.queued.mouse))
                   = IF c \in AlivePositions THEN AlivePositions \ {c}
                     ELSE AlivePositions \cup {c}
       /\ (hist'.op = "mouse" /\ config.running) => NothingQueued]_vars

\* C24: "Load Pattern" on a text that is empty after trimming or holds no "!"
\* sets an error message and leaves the modal open, the placement mode, the
\* pattern name and the running flag unchanged; on any other text it closes
\* the modal, activates the placement of "custom_rle" and pauses.
C24_LoadPatternValidates ==
    [][hist'.op = "rle_load"
          => IF \/ SeqToSet(rle_loader.rle_content) \subseteq Whitespace
                \/ "!" \notin SeqToSet(rle_loader.rle_content)
             THEN /\ rle_loader'.error_message # NoString
                  /\ rle_loader'.show_input
                  /\ rle_loader'.rle_content = rle_loader.rle_content
                  /\ placement_mode' = placement_mode
                  /\ config'.running = config.running
             ELSE /\ ~rle_loader'.show_input
                  /\ placement_mode'
                       = [active |-> TRUE, pattern_name |-> "custom_rle"]
                  /\ ~config'.running]_vars

C24_Witness ==
    /\ hist.op = "rle_load"
    /\ rle_loader.rle_content = <<"2", "o">>
    /\ rle_loader.error_message # NoString
    /\ rle_loader.show_input
    /\ ~placement_mode.active
    /\ config.running

\* C23: clearing the grid (R or "Clear Grid") sets running to false and, once
\* its commands are applied, no handle is alive and every handle that was
\* alive is in the pool; a generation computed on the empty grid leaves it
\* empty.
C23_ClearGridEmptiesGrid ==
    [][/\ (/\ hist'.op \in {"apply", "sync"}
           /\ frame.key_r
           /\ frame.queued.keyboard # <<>>
           /\ frame.queued.mouse = <<>>)
          => /\ ~config'.running
             /\ AliveQuery(ents') = {}
             /\ AliveQuery(ents) \subseteq SeqToSet(pool')
       /\ (hist'.op = "clear" /\ frame.phase = "egui")
          => /\ ~config'.running
             /\ AliveQuery(ents') = {}
             /\ AliveQuery(ents) \subseteq SeqToSet(pool')
       /\ (hist'.op = "generation" /\ hist'.computed /\ AliveQuery(ents) = {}
             /\ frame.queued = NoQueue)
          => frame'.queued = NoQueue]_vars

\* C25: the pool never holds the same handle twice, whatever the order in
\* which the systems that push to it (the generation, the hand-paint erase,
\* the clearing of the grid) run within a frame.
C25_PoolHasNoDuplicate ==
    \A i, j \in 1..Len(pool) : pool[i] = pool[j] => i = j

\* C26: a single-step request never outlives a switch to running: in every
\* state where running is true, calculate_next_gen is false.
C26_NoRequestWhileRunning == config.running => ~config.calculate_next_gen

\* C27: if the simulation stays running, every frame has a positive elapsed
\* time and the period eventually stops changing, then generations are
\* computed again and again: the timer resets of period changes do not put the
\* next generation off for ever.
C27_RunningComputesForever ==
    (/\ <>[]config.running
     /\ [](hist.op = "generation" => hist.delta > 0)
     /\ <>[][config'.period = config.period]_vars)
        => []<><<hist'.op = "generation" /\ hist'.computed>>_vars

C27_Witness ==
    /\ ComputedGeneration
    /\ config.running
    /\ gens = MaxGens
    /\ timer.duration # DefaultPeriod
    /\ hist.delta > 0

\* C28: once the pending commands are applied, every handle ever allocated is
\* either alive or in the pool, and the number of handles is the number of
\* alive handles plus the length of the pool.
C28_HandlesAliveOrPooled ==
    frame.queued = NoQueue
        => /\ \A e \in 1..Len(ents) :
                  /\ ents[e].live
                  /\ e \in AliveQuery(ents) \/ e \in PoolSet
           /\ Len(ents) = Cardinality(AliveQuery(ents)) + Len(pool)

\* the run counts written in the text stay inside i32
RECURSIVE CountsInRange(_, _)
CountsInRange(n, text) ==
    IF text = <<>> \/ Head(text) = "!" THEN TRUE
    ELSE IF Head(text) \in Digits
    THEN /\ n <= (Int32Max - DigitValue(Head(text))) \div 10
         /\ CountsInRange(n * 10 + DigitValue(Head(text)), Tail(text))
    ELSE IF Head(text) \in {"b", ".", "o", "$"}
    THEN CountsInRange(0, Tail(text))
    ELSE CountsInRange(n, Tail(text))

\* C29: on every text whose run counts stay inside i32, the coordinates that
\* parse_rle returns are pairwise distinct, have x >= 0 and y >= 0, and come in
\* strictly increasing row-major order (y never decreases, x increases within
\* a row).
C29_DecodedCellsAreOrdered ==
    (rle_call.done /\ CountsInRange(0, CallText))
        => /\ ~rle_call.panicked
           /\ \A i \in 1..Len(rle_call.cells) :
                  rle_call.cells[i][1] >= 0 /\ rle_call.cells[i][2] >= 0
           /\ \A i \in 1..(Len(rle_call.cells) - 1) :
                  LET c == rle_call.cells[i]
                      d == rle_call.cells[i + 1]
                  IN  c[2] < d[2] \/ (c[2] = d[2] /\ c[1] < d[1])

\* an alive handle sits on every coordinate of the sequence
Placed(w, positions) ==
    \A i \in 1..Len(positions) :
        \E e \in AliveQuery(w) : w[e].pos = positions[i]

\* the cells of a pattern moved to the anchor
AtAnchor(anchor, cells) ==
    [i \in 1..Len(cells) |-> <<anchor[1] + cells[i][1], anchor[2] + cells[i][2]>>]

\* C30: placement is one-shot.  Choosing a pattern (or accepting a pasted
\* text) makes placement active and pauses; while placement is active the
\* mouse never paints a cell and changes nothing before the release; the
\* release places an alive cell at anchor + offset for every decoded offset
\* (seen once the commands of the frame are applied), ends placement and
\* clears the pattern name, so that only a release made while placement is
\* active places anything.
C30_PlacementIsOneShot ==
    [][/\ (hist'.op = "pattern" \/ (hist'.op = "rle_load" /\ ~rle_loader'.show_input))
          => placement_mode'.active /\ ~config'.running
       /\ (placement_mode.active /\ hist'.op \in {"mouse", "paint"})
          => /\ hist'.op = "mouse"
             /\ NothingQueued
             /\ placement_mode' = placement_mode
       /\ hist'.op = "place"
          => /\ placement_mode.active
             /\ placement_mode' = [active |-> FALSE, pattern_name |-> NoString]
             /\ Len(frame'.queued.mouse) = Len(hist'.spawn)
             /\ \A i \in 1..Len(hist'.spawn) :
                    frame'.queued.mouse[i].pos
                        = AtAnchor(hist'.anchor, hist'.spawn)[i]
       /\ (hist'.op \in {"apply", "sync"} /\ frame.mouse.button = "released")
          => Placed(ents', [i \in 1..Len(frame.queued.mouse) |->
                               frame.queued.mouse[i].pos])]_vars

=============================================================================
